---- MODULE Spec2Model ----
(***************************************************************************)
(* Model of multi_tool_agent/agent.py: the two lookup tools, the three     *)
(* agent constructors, the per-turn event loop of call_agent_async, the    *)
(* driver run_team_conversation and the process entry point.               *)
(*                                                                         *)
(* The agent framework (Agent, InMemorySessionService, Runner and the      *)
(* events a runner emits) is external: every call into it is a             *)
(* nondeterministic choice between success and a raised Exception, and an  *)
(* event is any record of the shape call_agent_async reads.                *)
(***************************************************************************)
EXTENDS Integers, Sequences, FiniteSets

VARIABLES
    pc,                  \* position of the process: import, main, ..., exited
    GOOGLE_API_KEY,      \* os.getenv("GOOGLE_API_KEY") after load_dotenv()
    greeting_agent,      \* local of run_team_conversation
    farewell_agent,      \* local of run_team_conversation
    root_agent,          \* local of run_team_conversation
    agent_calls,         \* names the framework's Agent constructor was invoked with
    session,             \* TRUE once session_service.create_session returned
    runner,              \* TRUE once Runner(...) returned
    cstate,              \* position inside call_agent_async: idle, iterating, print
    consumed,            \* events taken from runner.run_async in the current turn
    last_event,          \* the event taken last in the current turn
    ended_by,            \* how the event loop of the current turn was left
    final_response_text, \* local of call_agent_async
    queries_sent,        \* queries handed to runner.run_async, in order
    in_flight,           \* turns whose runner.run_async stream is open
    responses,           \* value printed by line 186 for each finished turn
    stdout,              \* lines printed
    exit_code,           \* -1 while running, then the process's exit code
    city,                \* argument of the tool under test
    now,                 \* wall clock read by get_current_time
    tool,                \* tool that was called, or "none"
    result               \* record the tool returned

procVars == <<pc, GOOGLE_API_KEY, greeting_agent, farewell_agent, root_agent,
              agent_calls, session, runner, cstate, consumed, last_event,
              ended_by, final_response_text, queries_sent, in_flight,
              responses, stdout, exit_code>>
toolVars == <<city, now, tool, result>>
vars == <<procVars, toolVars>>

----------------------------------------------------------------------------
(* Bounds *)

MaxEvents == 2     \* events a runner emits in one turn
MaxParts == 2      \* parts in the content of one event
MaxCityLen == 2    \* length of the arbitrary city strings

----------------------------------------------------------------------------
(* Python values *)

None == [t |-> "NoneType"]
Str(s) == [t |-> "str", v |-> s]
NewAgent(name, model, sub_agents) ==
    [t |-> "Agent", name |-> name, model |-> model, sub_agents |-> sub_agents]
NoEvent == [t |-> "NoEvent"]

\* bool(v) for the values the code tests
Truthy(v) == v # None /\ (v.t = "str" => v.v # "")

\* f"{v}"
Format(v) == IF v = None THEN "None" ELSE v.v

MODEL_GEMINI_2_0_FLASH == "gemini-2.0-flash"

QUERIES == <<"Hello there!", "What is the weather in New York?", "Thanks, bye!">>

DEFAULT_RESPONSE == "Agent did not produce a final response."

\* Exceptions the framework may raise
Faults == {[cls |-> "RuntimeError", msg |-> "quota exceeded"],
           [cls |-> "ValueError", msg |-> "invalid model"]}

ExceptionClasses == {"RuntimeError", "ValueError"}

\* except Exception as e
except_Exception_narrow(e) == e.cls = "ValueError"
except_Exception(e) == e.cls \in ExceptionClasses

----------------------------------------------------------------------------
(* Events of the runner, as far as call_agent_async reads them *)

PartTexts == {None, Str("It is sunny.")}
Parts == [text : PartTexts]
PartSeqs == UNION {[1..n -> Parts] : n \in 0..MaxParts}
Contents == {None} \cup [parts : PartSeqs]
Actions == {None} \cup [escalate : BOOLEAN]
ErrorMessages == {None, Str(""), Str("blocked")}
Events == [final : BOOLEAN, content : Contents, actions : Actions,
           error_message : ErrorMessages]

\* body of `if event.is_final_response():`, cur is final_response_text before it
final_text_escalation_first(event, cur) ==
    IF event.actions # None /\ event.actions.escalate
    THEN Str("Agent escalated: " \o
             Format(IF Truthy(event.error_message) THEN event.error_message
                    ELSE Str("No specific message.")))
    ELSE IF event.content # None /\ event.content.parts # <<>>
    THEN event.content.parts[1].text
    ELSE cur
final_text(event, cur) ==
    IF event.content # None /\ event.content.parts # <<>>
    THEN event.content.parts[1].text
    ELSE IF event.actions # None /\ event.actions.escalate
    THEN Str("Agent escalated: " \o
             Format(IF Truthy(event.error_message) THEN event.error_message
                    ELSE Str("No specific message.")))
    ELSE cur

\* the loop ran out of events: final_response_text keeps its value
after_loop_unset(cur) == None
after_loop(cur) == cur

\* except branch of call_agent_async
error_text(e) == Str("Error during agent execution: " \o e.msg)

----------------------------------------------------------------------------
(* Tool functions.  A str is a sequence of one-character strings. *)

NEW_YORK ==
    <<"n", "e", "w", " ", "y", "o", "r", "k">>

WEATHER_REPORT ==
    <<"T", "h", "e", " ", "w", "e", "a", "t", "h", "e", "r", " ", "i",
      "n", " ", "N", "e", "w", " ", "Y", "o", "r", "k", " ", "i", "s",
      " ", "s", "u", "n", "n", "y", " ", "w", "i", "t", "h", " ", "a",
      " ", "t", "e", "m", "p", "e", "r", "a", "t", "u", "r", "e", " ",
      "o", "f", " ", "2", "5", " ", "d", "e", "g", "r", "e", "e", "s",
      " ", "C", "e", "l", "s", "i", "u", "s", " ", "(", "7", "7", " ",
      "d", "e", "g", "r", "e", "e", "s", " ", "F", "a", "h", "r", "e",
      "n", "h", "e", "i", "t", ")", ".">>

WEATHER_ERR_PRE ==
    <<"W", "e", "a", "t", "h", "e", "r", " ", "i", "n", "f", "o", "r",
      "m", "a", "t", "i", "o", "n", " ", "f", "o", "r", " ", "'">>

WEATHER_ERR_POST ==
    <<"'", " ", "i", "s", " ", "n", "o", "t", " ", "a", "v", "a", "i",
      "l", "a", "b", "l", "e", ".">>

TIME_ERR_PRE ==
    <<"S", "o", "r", "r", "y", ",", " ", "I", " ", "d", "o", "n", "'",
      "t", " ", "h", "a", "v", "e", " ", "t", "i", "m", "e", "z", "o",
      "n", "e", " ", "i", "n", "f", "o", "r", "m", "a", "t", "i", "o",
      "n", " ", "f", "o", "r", " ">>

TIME_ERR_POST ==
    <<".">>

TIME_PRE ==
    <<"T", "h", "e", " ", "c", "u", "r", "r", "e", "n", "t", " ", "t",
      "i", "m", "e", " ", "i", "n", " ">>

TIME_MID ==
    <<" ", "i", "s", " ">>

UPPERCASE ==
    <<"A", "B", "C", "D", "E", "F", "G", "H", "I", "J", "K", "L", "M",
      "N", "O", "P", "Q", "R", "S", "T", "U", "V", "W", "X", "Y", "Z">>

LOWERCASE ==
    <<"a", "b", "c", "d", "e", "f", "g", "h", "i", "j", "k", "l", "m",
      "n", "o", "p", "q", "r", "s", "t", "u", "v", "w", "x", "y", "z">>

DIGITS ==
    <<"0", "1", "2", "3", "4", "5", "6", "7", "8", "9">>

\* str.lower() on the ASCII letters
lower_char(c) ==
    IF \E i \in 1..Len(UPPERCASE) : UPPERCASE[i] = c
    THEN LOWERCASE[CHOOSE i \in 1..Len(UPPERCASE) : UPPERCASE[i] = c]
    ELSE c
lower(s) == [i \in 1..Len(s) |-> lower_char(s[i])]

\* city.lower() == "new york"
recognized_exact(c) == c = NEW_YORK
recognized(c) == lower(c) = NEW_YORK

\* a datetime in America/New_York: the fields strftime reads
Clocks ==
    {[year |-> 2024, month |-> 1, day |-> 5, hour |-> 9, minute |-> 3,
      second |-> 0, tzname |-> <<"E", "S", "T">>, utcoffset |-> -300],
     [year |-> 2025, month |-> 7, day |-> 14, hour |-> 23, minute |-> 59,
      second |-> 58, tzname |-> <<"E", "D", "T">>, utcoffset |-> -240]}

\* zero-padded decimal of width w
RECURSIVE pad(_, _)
pad(n, w) == IF w = 0 THEN <<>> ELSE pad(n \div 10, w - 1) \o <<DIGITS[(n % 10) + 1]>>

\* now.strftime("%Y-%m-%d %H:%M:%S %Z%z")
strftime(t) ==
    LET off == IF t.utcoffset < 0 THEN -t.utcoffset ELSE t.utcoffset IN
    pad(t.year, 4) \o <<"-">> \o pad(t.month, 2) \o <<"-">> \o pad(t.day, 2)
    \o <<" ">> \o pad(t.hour, 2) \o <<":">> \o pad(t.minute, 2)
    \o <<":">> \o pad(t.second, 2) \o <<" ">> \o t.tzname
    \o <<(IF t.utcoffset < 0 THEN "-" ELSE "+")>>
    \o pad(off \div 60, 2) \o pad(off % 60, 2)

get_weather_both_fields(c) ==
    IF recognized(c)
    THEN [status |-> "success", report |-> WEATHER_REPORT]
    ELSE [status |-> "error", report |-> <<>>,
          error_message |-> WEATHER_ERR_PRE \o c \o WEATHER_ERR_POST]
get_weather(c) ==
    IF recognized(c)
    THEN [status |-> "success", report |-> WEATHER_REPORT]
    ELSE [status |-> "error",
          error_message |-> WEATHER_ERR_PRE \o c \o WEATHER_ERR_POST]

get_current_time(c, t) ==
    IF recognized(c)
    THEN [status |-> "success",
          report |-> TIME_PRE \o c \o TIME_MID \o strftime(t)]
    ELSE [status |-> "error",
          error_message |-> TIME_ERR_PRE \o c \o TIME_ERR_POST]

----------------------------------------------------------------------------
(* Process *)

print_line(line) == stdout' = Append(stdout, line)

\* an exception leaves run_team_conversation and reaches main's try/except
main_handler_absent(e) == FALSE
main_handler(e) == except_Exception(e)

RaiseToMain(e, out) ==
    /\ pc' = "exited"
    /\ IF main_handler(e)
       THEN /\ stdout' = Append(out, "An error occurred in the main execution: " \o e.msg)
            /\ exit_code' = 0
       ELSE /\ stdout' = out
            /\ exit_code' = 1

\* module level, lines 13-17
load_config ==
    /\ pc = "import"
    /\ IF ~Truthy(GOOGLE_API_KEY)
       THEN /\ pc' = "exited"
            /\ exit_code' = 1
       ELSE /\ pc' = "main"
            /\ UNCHANGED exit_code
    /\ UNCHANGED <<GOOGLE_API_KEY, greeting_agent, farewell_agent, root_agent,
                   agent_calls, session, runner, cstate, consumed, last_event,
                   ended_by, final_response_text, queries_sent, in_flight,
                   responses, stdout, toolVars>>

\* main -> asyncio.run -> first line of run_team_conversation
main ==
    /\ pc = "main"
    /\ pc' = "create_greeting"
    /\ print_line("--- Testing Agent Team Delegation ---")
    /\ UNCHANGED <<GOOGLE_API_KEY, greeting_agent, farewell_agent, root_agent,
                   agent_calls, session, runner, cstate, consumed, last_event,
                   ended_by, final_response_text, queries_sent, in_flight,
                   responses, exit_code, toolVars>>

create_greeting_agent ==
    /\ pc = "create_greeting"
    /\ agent_calls' = Append(agent_calls, "greeting_agent")
    /\ \/ /\ greeting_agent' = NewAgent("greeting_agent", MODEL_GEMINI_2_0_FLASH, <<>>)
          /\ print_line("Agent '" \o greeting_agent'.name \o "' created using model '"
                        \o greeting_agent'.model \o "'.")
          /\ pc' = "create_farewell"
          /\ UNCHANGED exit_code
       \/ \E e \in Faults :
             IF except_Exception(e)
             THEN /\ greeting_agent' = None
                  /\ print_line("Could not create Greeting agent. Error: " \o e.msg)
                  /\ pc' = "create_farewell"
                  /\ UNCHANGED exit_code
             ELSE /\ RaiseToMain(e, stdout)
                  /\ UNCHANGED greeting_agent
    /\ UNCHANGED <<GOOGLE_API_KEY, farewell_agent, root_agent, session, runner,
                   cstate, consumed, last_event, ended_by, final_response_text,
                   queries_sent, in_flight, responses, toolVars>>

create_farewell_agent ==
    /\ pc = "create_farewell"
    /\ agent_calls' = Append(agent_calls, "farewell_agent")
    /\ \/ /\ farewell_agent' = NewAgent("farewell_agent", MODEL_GEMINI_2_0_FLASH, <<>>)
          /\ print_line("Agent '" \o farewell_agent'.name \o "' created using model '"
                        \o farewell_agent'.model \o "'.")
          /\ pc' = "create_root"
          /\ UNCHANGED exit_code
       \/ \E e \in Faults :
             IF except_Exception(e)
             THEN /\ farewell_agent' = None
                  /\ print_line("Could not create Farewell agent. Error: " \o e.msg)
                  /\ pc' = "create_root"
                  /\ UNCHANGED exit_code
             ELSE /\ RaiseToMain(e, stdout)
                  /\ UNCHANGED farewell_agent
    /\ UNCHANGED <<GOOGLE_API_KEY, greeting_agent, root_agent, session, runner,
                   cstate, consumed, last_event, ended_by, final_response_text,
                   queries_sent, in_flight, responses, toolVars>>

\* if not greeting_agent or not farewell_agent
sub_agents_missing_both(g, f) == g = None /\ f = None
sub_agents_missing(g, f) == g = None \/ f = None

create_root_agent ==
    /\ pc = "create_root"
    /\ IF sub_agents_missing(greeting_agent, farewell_agent)
       THEN /\ print_line("Cannot create root agent because one or more sub-agents are missing.")
            /\ root_agent' = None
            /\ pc' = "check_root"
            /\ UNCHANGED <<agent_calls, exit_code>>
       ELSE /\ agent_calls' = Append(agent_calls, "weather_agent_team")
            /\ \/ /\ root_agent' = NewAgent("weather_agent_team", MODEL_GEMINI_2_0_FLASH,
                                          <<greeting_agent, farewell_agent>>)
                  /\ print_line("Root Agent 'weather_agent_team' created with sub-agents: "
                                \o "['greeting_agent', 'farewell_agent']")
                  /\ pc' = "check_root"
                  /\ UNCHANGED exit_code
               \/ \E e \in Faults :
                     IF except_Exception(e)
                     THEN /\ root_agent' = None
                          /\ print_line("Could not create Root agent. Error: " \o e.msg)
                          /\ pc' = "check_root"
                          /\ UNCHANGED exit_code
                     ELSE /\ RaiseToMain(e, stdout)
                          /\ UNCHANGED root_agent
    /\ UNCHANGED <<GOOGLE_API_KEY, greeting_agent, farewell_agent, session, runner,
                   cstate, consumed, last_event, ended_by, final_response_text,
                   queries_sent, in_flight, responses, toolVars>>

\* if not root_agent
root_missing_ignored(r) == FALSE
root_missing(r) == r = None

check_root ==
    /\ pc = "check_root"
    /\ IF root_missing(root_agent)
       THEN /\ print_line("Cannot run conversation without a properly configured root agent.")
            /\ pc' = "exited"
            /\ exit_code' = 0
       ELSE /\ pc' = "create_session"
            /\ UNCHANGED <<stdout, exit_code>>
    /\ UNCHANGED <<GOOGLE_API_KEY, greeting_agent, farewell_agent, root_agent,
                   agent_calls, session, runner, cstate, consumed, last_event,
                   ended_by, final_response_text, queries_sent, in_flight,
                   responses, toolVars>>

create_session ==
    /\ pc = "create_session"
    /\ \/ /\ session' = TRUE
          /\ pc' = "create_runner"
          /\ print_line("Session created: App='weather_tutorial_agent_team', "
                   \o "User='user_1_agent_team', Session='session_001_agent_team'")
          /\ UNCHANGED exit_code
       \/ /\ \E e \in Faults : RaiseToMain(e, stdout)
          /\ UNCHANGED session
    /\ UNCHANGED <<GOOGLE_API_KEY, greeting_agent, farewell_agent, root_agent,
                   agent_calls, runner, cstate, consumed, last_event, ended_by,
                   final_response_text, queries_sent, in_flight, responses,
                   toolVars>>

create_runner ==
    /\ pc = "create_runner"
    /\ \/ /\ runner' = TRUE
          /\ pc' = "turns"
          /\ print_line("Runner created for agent 'weather_agent_team'.")
          /\ UNCHANGED exit_code
       \/ /\ \E e \in Faults : RaiseToMain(e, stdout)
          /\ UNCHANGED runner
    /\ UNCHANGED <<GOOGLE_API_KEY, greeting_agent, farewell_agent, root_agent,
                   agent_calls, session, cstate, consumed, last_event, ended_by,
                   final_response_text, queries_sent, in_flight, responses,
                   toolVars>>

\* `await call_agent_async(...)`: the next statement runs once the call returned
await_returned_eager == TRUE
await_returned == cstate = "idle"

\* call_agent_async up to the first event, lines 165-173
call_agent_async ==
    /\ pc = "turns"
    /\ await_returned
    /\ Len(queries_sent) < Len(QUERIES)
    /\ LET query == QUERIES[Len(queries_sent) + 1] IN
          /\ print_line(">>> User Query: " \o query)
          /\ queries_sent' = Append(queries_sent, query)
    /\ final_response_text' = Str(DEFAULT_RESPONSE)
    /\ in_flight' = in_flight \cup {Len(queries_sent) + 1}
    /\ cstate' = "iterating"
    /\ consumed' = 0
    /\ last_event' = NoEvent
    /\ ended_by' = "open"
    /\ UNCHANGED <<pc, GOOGLE_API_KEY, greeting_agent, farewell_agent, root_agent,
                   agent_calls, session, runner, responses, exit_code, toolVars>>

\* one iteration of `async for event in runner.run_async(...)`
next_event ==
    /\ pc = "turns"
    /\ cstate = "iterating"
    /\ consumed < MaxEvents
    /\ \E event \in Events :
          /\ last_event' = event
          /\ consumed' = consumed + 1
          /\ IF event.final
             THEN /\ final_response_text' = final_text(event, final_response_text)
                  /\ cstate' = "print"
                  /\ ended_by' = "final"
                  /\ in_flight' = in_flight \ {Len(queries_sent)}
             ELSE UNCHANGED <<final_response_text, cstate, ended_by, in_flight>>
    /\ UNCHANGED <<pc, GOOGLE_API_KEY, greeting_agent, farewell_agent, root_agent,
                   agent_calls, session, runner, queries_sent, responses, stdout,
                   exit_code, toolVars>>

\* the stream ends without a final response
stream_exhausted ==
    /\ pc = "turns"
    /\ cstate = "iterating"
    /\ final_response_text' = after_loop(final_response_text)
    /\ cstate' = "print"
    /\ ended_by' = "exhausted"
    /\ in_flight' = in_flight \ {Len(queries_sent)}
    /\ UNCHANGED <<pc, GOOGLE_API_KEY, greeting_agent, farewell_agent, root_agent,
                   agent_calls, session, runner, consumed, last_event,
                   queries_sent, responses, stdout, exit_code, toolVars>>

\* runner.run_async raises, at the call or between two events
turn_handler_narrow(e) == except_Exception_narrow(e)
turn_handler(e) == except_Exception(e)

runner_fault ==
    /\ pc = "turns"
    /\ cstate = "iterating"
    /\ in_flight' = in_flight \ {Len(queries_sent)}
    /\ \E e \in Faults :
          IF turn_handler(e)
          THEN /\ final_response_text' = error_text(e)
               /\ cstate' = "print"
               /\ ended_by' = "fault"
               /\ UNCHANGED <<pc, stdout, exit_code>>
          ELSE /\ RaiseToMain(e, stdout)
               /\ ended_by' = "raised"
               /\ UNCHANGED <<final_response_text, cstate>>
    /\ UNCHANGED <<GOOGLE_API_KEY, greeting_agent, farewell_agent, root_agent,
                   agent_calls, session, runner, consumed, last_event,
                   queries_sent, responses, toolVars>>

\* line 186 and the return to the driver
print_response ==
    /\ pc = "turns"
    /\ cstate = "print"
    /\ print_line("<<< Agent Response: " \o Format(final_response_text))
    /\ responses' = Append(responses, final_response_text)
    /\ cstate' = "idle"
    /\ UNCHANGED <<pc, GOOGLE_API_KEY, greeting_agent, farewell_agent, root_agent,
                   agent_calls, session, runner, consumed, last_event, ended_by,
                   final_response_text, queries_sent, in_flight, exit_code,
                   toolVars>>

\* run_team_conversation returns after the third await; main returns
main_return ==
    /\ pc = "turns"
    /\ await_returned
    /\ Len(queries_sent) = Len(QUERIES)
    /\ pc' = "exited"
    /\ exit_code' = 0
    /\ UNCHANGED <<GOOGLE_API_KEY, greeting_agent, farewell_agent, root_agent,
                   agent_calls, session, runner, cstate, consumed, last_event,
                   ended_by, final_response_text, queries_sent, in_flight,
                   responses, stdout, toolVars>>

Keys == {None, Str(""), Str("secret")}

Init ==
    /\ pc = "import"
    /\ GOOGLE_API_KEY \in Keys
    /\ greeting_agent = None
    /\ farewell_agent = None
    /\ root_agent = None
    /\ agent_calls = <<>>
    /\ session = FALSE
    /\ runner = FALSE
    /\ cstate = "idle"
    /\ consumed = 0
    /\ last_event = NoEvent
    /\ ended_by = "open"
    /\ final_response_text = None
    /\ queries_sent = <<>>
    /\ in_flight = {}
    /\ responses = <<>>
    /\ stdout = <<>>
    /\ exit_code = -1
    /\ city = <<>>
    /\ now = None
    /\ tool = "none"
    /\ result = None

\* the framework calls a tool with the city the language model extracted
call_get_weather ==
    /\ tool = "none"
    /\ tool' = "get_weather"
    /\ result' = get_weather(city)
    /\ UNCHANGED <<city, now, procVars>>

call_get_current_time ==
    /\ tool = "none"
    /\ tool' = "get_current_time"
    /\ \E t \in Clocks :
          /\ now' = t
          /\ result' = get_current_time(city, t)
    /\ UNCHANGED <<city, procVars>>

Next ==
    \/ load_config
    \/ main
    \/ create_greeting_agent
    \/ create_farewell_agent
    \/ create_root_agent
    \/ check_root
    \/ create_session
    \/ create_runner
    \/ call_agent_async
    \/ next_event
    \/ stream_exhausted
    \/ runner_fault
    \/ print_response
    \/ main_return

Spec == Init /\ [][Next]_vars

\* city strings handed to the tools
Alphabet == {"n", "N", " ", "'"}
ArbitraryCities == UNION {[1..n -> Alphabet] : n \in 0..MaxCityLen}
upper_char(c) ==
    IF \E i \in 1..Len(LOWERCASE) : LOWERCASE[i] = c
    THEN UPPERCASE[CHOOSE i \in 1..Len(LOWERCASE) : LOWERCASE[i] = c]
    ELSE c
CaseVariants(s) ==
    {[i \in 1..Len(s) |-> IF f[i] THEN upper_char(s[i]) ELSE s[i]] :
        f \in [1..Len(s) -> BOOLEAN]}
NearMisses ==
    {v \o <<" ">> : v \in CaseVariants(NEW_YORK)}
    \cup {SubSeq(v, 1, Len(v) - 1) : v \in CaseVariants(NEW_YORK)}
    \cup {<<"P", "a", "r", "i", "s">>, <<"n", "e", "w", "y", "o", "r", "k">>,
          <<"N", "e", "w", " ", "Y", "o", "r", "k", " ", "C", "i", "t", "y">>}
Cities == ArbitraryCities \cup CaseVariants(NEW_YORK) \cup NearMisses

ToolInit ==
    /\ city \in Cities
    /\ now = None
    /\ tool = "none"
    /\ result = None
    /\ pc = "import"
    /\ GOOGLE_API_KEY = Str("secret")
    /\ greeting_agent = None
    /\ farewell_agent = None
    /\ root_agent = None
    /\ agent_calls = <<>>
    /\ session = FALSE
    /\ runner = FALSE
    /\ cstate = "idle"
    /\ consumed = 0
    /\ last_event = NoEvent
    /\ ended_by = "open"
    /\ final_response_text = None
    /\ queries_sent = <<>>
    /\ in_flight = {}
    /\ responses = <<>>
    /\ stdout = <<>>
    /\ exit_code = -1

ToolNext ==
    \/ call_get_weather
    \/ call_get_current_time

ToolSpec == ToolInit /\ [][ToolNext]_vars

\* the driver's own steps are run by the event loop as soon as they are ready;
\* nothing makes the runner deliver, end or fail a stream
FairSpec ==
    /\ Init
    /\ [][Next]_vars
    /\ WF_vars(print_response)
    /\ WF_vars(call_agent_async)
    /\ WF_vars(main_return)

----------------------------------------------------------------------------
(* Properties *)

Contains(hay, needle) ==
    \E i \in 0..(Len(hay) - Len(needle)) : SubSeq(hay, i + 1, i + Len(needle)) = needle

\* a and b differ at most in the case of their letters
SameIgnoringCase(a, b) ==
    /\ Len(a) = Len(b)
    /\ \A i \in 1..Len(a) : upper_char(a[i]) = upper_char(b[i])

Last(s) == s[Len(s)]

\* C1: for every city, get_weather and get_current_time return status success
\* with a non-empty report when the city is "new york" up to case, and otherwise
\* status error with an error_message that contains the city as given.
C1_RecognizedCityOnly ==
    tool # "none" =>
        IF SameIgnoringCase(city, <<"n", "e", "w", " ", "y", "o", "r", "k">>)
        THEN /\ result.status = "success"
             /\ "report" \in DOMAIN result
             /\ result.report # <<>>
        ELSE /\ result.status = "error"
             /\ "error_message" \in DOMAIN result
             /\ Contains(result.error_message, city)

C1_Witness ==
    /\ tool = "get_current_time"
    /\ city = <<"N", "e", "w", " ", "Y", "o", "R", "k">>
    /\ result.status = "success"
    /\ Contains(result.report, city)

\* C2: every record a tool returns has status success or error, and carries
\* report without error_message on success, error_message without report on error.
C2_ExactlyOnePayload ==
    tool # "none" =>
        /\ result.status \in {"success", "error"}
        /\ result.status = "success" => DOMAIN result = {"status", "report"}
        /\ result.status = "error" => DOMAIN result = {"status", "error_message"}

C2_Witness ==
    /\ tool = "get_weather"
    /\ city = <<"P", "a", "r", "i", "s">>
    /\ DOMAIN result = {"status", "error_message"}

\* C3: create_root_agent returns None without raising and without invoking the
\* Agent constructor whenever a sub-agent is absent, so no root agent exists
\* beside an absent sub-agent.
C3_RootGuard ==
    /\ [](root_agent # None => greeting_agent # None /\ farewell_agent # None)
    /\ [][pc = "create_root" /\ (greeting_agent = None \/ farewell_agent = None)
            => /\ pc' = "check_root"
               /\ root_agent' = None
               /\ agent_calls' = agent_calls
               /\ exit_code' = exit_code]_vars

C3_Witness ==
    /\ pc = "check_root"
    /\ greeting_agent # None
    /\ farewell_agent = None
    /\ root_agent = None
    /\ agent_calls = <<"greeting_agent", "farewell_agent">>

\* C4: turn n+1 is started only after the response of turn n was printed, and
\* at most one turn's runner stream is open at any time.
C4_TurnsSequential ==
    /\ Cardinality(in_flight) <= 1
    /\ Len(responses) <= Len(queries_sent)
    /\ Len(queries_sent) <= Len(responses) + 1
    /\ \A n \in in_flight : n = Len(queries_sent) /\ Len(responses) = n - 1

C4_Witness ==
    /\ in_flight = {2}
    /\ Len(queries_sent) = 2
    /\ Len(responses) = 1
    /\ consumed = 1

\* C5: a turn that ends with a final-response event reports the text of that
\* event's first part if it has content with a part, else the escalation message
\* if it escalates, else the default; non-final events leave the response alone
\* and the loop takes no event after the first final one.
C5_FinalEventPrecedence ==
    /\ [](ended_by = "final" =>
            /\ last_event.final
            /\ cstate # "iterating"
            /\ IF last_event.content # None /\ Len(last_event.content.parts) >= 1
               THEN final_response_text = last_event.content.parts[1].text
               ELSE IF last_event.actions # None /\ last_event.actions.escalate
               THEN final_response_text =
                       IF last_event.error_message \in {None, Str("")}
                       THEN Str("Agent escalated: No specific message.")
                       ELSE Str("Agent escalated: " \o last_event.error_message.v)
               ELSE final_response_text = Str("Agent did not produce a final response."))
    /\ [](cstate = "iterating" /\ last_event # NoEvent => ~last_event.final)
    /\ [][consumed' = consumed + 1
            => /\ cstate = "iterating"
               /\ ~last_event'.final => final_response_text' = final_response_text]_vars

C5_Witness ==
    /\ ended_by = "final"
    /\ consumed = 2
    /\ last_event.content = [parts |-> <<>>]
    /\ last_event.actions = [escalate |-> TRUE]
    /\ final_response_text = Str("Agent escalated: blocked")

\* C6: an exception raised by the runner during a turn is caught in
\* call_agent_async: the response becomes "Error during agent execution: ..."
\* and the process keeps running; the driver then sends the next query, and it
\* returns only once every query was sent.
C6_TurnFaultContained ==
    /\ [][ended_by = "open" /\ ended_by' \notin {"open", "final", "exhausted"}
            => /\ ended_by' = "fault"
               /\ pc' = "turns"
               /\ exit_code' = -1
               /\ cstate' = "print"
               /\ \E e \in Faults :
                     final_response_text' = Str("Error during agent execution: " \o e.msg)]_vars
    /\ [](pc = "exited" /\ runner => Len(queries_sent) = 3)
    /\ \A n \in 1..2 :
          (ended_by = "fault" /\ Len(queries_sent) = n) ~> (Len(queries_sent) = n + 1)

C6_Witness ==
    /\ ended_by = "fault"
    /\ Len(queries_sent) = 3
    /\ responses[1] = Str("Error during agent execution: quota exceeded")
    /\ Len(responses) = 2

\* C7: every finished turn reports exactly one response and it is a string.
C7_ResponseIsText ==
    /\ Len(responses) <= Len(queries_sent)
    /\ \A i \in 1..Len(responses) : responses[i] # None /\ responses[i].t = "str"

\* C8: whatever fails, the process ends with exit code 0.
C8_AlwaysExitZero ==
    pc = "exited" => exit_code = 0

\* C8 (amended): once the API key is set, every exception raised in main (agent
\* construction, session and runner setup, a turn) is caught and the process
\* ends with exit code 0, an exception that reached main having been printed;
\* without the key the import raises and the process ends with exit code 1.
C8_ExitZeroOnceConfigured ==
    pc = "exited" =>
        IF GOOGLE_API_KEY \in {None, Str("")}
        THEN exit_code = 1 /\ stdout = <<>>
        ELSE /\ exit_code = 0
             /\ (root_agent # None /\ Len(queries_sent) < 3) =>
                   \E e \in Faults :
                      Last(stdout) = "An error occurred in the main execution: " \o e.msg

C8_Witness ==
    /\ pc = "exited"
    /\ session
    /\ ~runner
    /\ exit_code = 0
    /\ Last(stdout) = "An error occurred in the main execution: invalid model"

\* C9: a turn whose stream ends without a final response and without an
\* exception reports "Agent did not produce a final response.".
C9_FallbackOnExhaustion ==
    ended_by = "exhausted" =>
        /\ final_response_text = Str("Agent did not produce a final response.")
        /\ cstate = "idle" =>
              /\ Len(responses) = Len(queries_sent)
              /\ Last(responses) = Str("Agent did not produce a final response.")

C9_Witness ==
    /\ ended_by = "exhausted"
    /\ consumed = 2
    /\ cstate = "idle"
    /\ Last(responses) = Str("Agent did not produce a final response.")

\* C10: when an agent could not be constructed, no session, no runner and no
\* query exist; the queries sent are always a prefix of the three fixed queries.
C10_ConstructionShortCircuits ==
    /\ (session \/ runner \/ queries_sent # <<>>
          \/ pc \in {"create_session", "create_runner", "turns"})
         => greeting_agent # None /\ farewell_agent # None /\ root_agent # None
    /\ Len(queries_sent) <= 3
    /\ queries_sent = SubSeq(<<"Hello there!", "What is the weather in New York?",
                               "Thanks, bye!">>, 1, Len(queries_sent))

C10_Witness ==
    /\ pc = "exited"
    /\ greeting_agent = None
    /\ farewell_agent # None
    /\ root_agent = None
    /\ ~session
    /\ queries_sent = <<>>
    /\ exit_code = 0

====
